---- MODULE Spec2Model ----
(***************************************************************************)
(* Model of src/server.js: an express application over one MongoDB         *)
(* collection of game records.  The state is the collection, the ObjectId  *)
(* generator, the wall clock and, for every request being served, the      *)
(* position of its async handler (the await it is suspended at) and the    *)
(* handler's local variables.                                              *)
(*                                                                         *)
(* JavaScript values are tagged records: the tag t is the value's kind and *)
(* the payload of each kind lives in a field of its own name.  Strings are *)
(* sequences of one-character strings, so that trim() and length are       *)
(* computed and not assumed.                                               *)
(***************************************************************************)
EXTENDS Integers, Sequences, FiniteSets, TLC

(* ------------------------------ bounds -------------------------------- *)

\* Concurrent requests in flight (one async handler invocation each).
NumProcs == 2
\* ObjectIds the generator can hand out; ids 1..MaxIds are well-formed.
MaxIds == 2
\* The wall clock runs 0..MaxClock (milliseconds, abstractly).
MaxClock == 2
\* Requests received over a run.
MaxReq == 3
\* Requests received over a run of the specification that varies the payloads.
MaxWideReq == 2

\* The calendar year when the process was started (line 31 is evaluated once,
\* when the module is loaded).
StartYear == 2025

\* new Date().getFullYear() at clock time t: the process starts at time 0, and
\* the year turns at the last instant of the clock.
Year(t) == IF t >= MaxClock THEN StartYear + 1 ELSE StartYear

Procs == 1..NumProcs
\* The ObjectIds the generator hands out, in this order.
Oids == 1..MaxIds
\* A well-formed ObjectId that the generator never hands out.
NoSuchId == 0
Times == 0..MaxClock

(* --------------------------- JavaScript values ------------------------ *)

Undef == [t |-> "undefined"]
Null == [t |-> "null"]
Str(s) == [t |-> "string", s |-> s]
Num(n) == [t |-> "number", n |-> n]
Bool(b) == [t |-> "boolean", b |-> b]
Arr(a) == [t |-> "array", a |-> a]
DateV(ms) == [t |-> "date", ms |-> ms]

\* typeof v
TypeOf(v) ==
  CASE v.t = "undefined" -> "undefined"
    [] v.t = "string" -> "string"
    [] v.t = "number" -> "number"
    [] v.t = "boolean" -> "boolean"
    [] OTHER -> "object"

\* Array.isArray(v)
IsArray(v) == v.t = "array"

\* ToBoolean(v): what !v, !!v, v || d and filter(d => d.f) test.
Truthy(v) ==
  CASE v.t = "undefined" -> FALSE
    [] v.t = "null" -> FALSE
    [] v.t = "boolean" -> v.b
    [] v.t = "number" -> v.n # 0
    [] v.t = "string" -> Len(v.s) > 0
    [] OTHER -> TRUE

\* !v
Not(v) == Bool(~Truthy(v))

\* a || b giving a whatever a is.
OrElse_KeepsFirst(a, b) == a

\* a || b
OrElse(a, b) == IF Truthy(a) THEN a ELSE b

\* a ?? b
Coalesce(a, b) == IF a.t \in {"undefined", "null"} THEN b ELSE a

IsSpace(c) == c = " "

RECURSIVE TrimStart(_)
TrimStart(s) ==
  IF s # <<>> /\ IsSpace(Head(s)) THEN TrimStart(Tail(s)) ELSE s

RECURSIVE TrimEnd(_)
TrimEnd(s) ==
  IF s # <<>> /\ IsSpace(s[Len(s)]) THEN TrimEnd(SubSeq(s, 1, Len(s) - 1)) ELSE s

\* String.prototype.trim
Trim(s) == TrimEnd(TrimStart(s))

(* ------------------------------ validator ----------------------------- *)

gameSchema ==
  [titre |-> [type |-> "string", required |-> TRUE, minLength |-> 1],
   genre |-> [type |-> "array", required |-> TRUE, minItems |-> 1],
   plateforme |-> [type |-> "array", required |-> TRUE, minItems |-> 1],
   editeur |-> [type |-> "string", required |-> FALSE],
   developpeur |-> [type |-> "string", required |-> FALSE],
   annee_sortie |-> [type |-> "number", required |-> FALSE, min |-> 1970, max |-> StartYear],
   temps_jeu_heures |-> [type |-> "number", required |-> FALSE, min |-> 0],
   termine |-> [type |-> "boolean", required |-> FALSE]]

\* Object.keys(gameSchema), in insertion order.
SchemaKeys ==
  <<"titre", "genre", "plateforme", "editeur", "developpeur",
    "annee_sortie", "temps_jeu_heures", "termine">>

\* An error string `${key} <msg>`.
Err(key, msg) == [key |-> key, msg |-> msg]

\* Line 41 without trim(): a string of whitespace is taken as present.
IsMissing_NoTrim(v) ==
  \/ v.t = "undefined"
  \/ v.t = "null"
  \/ (TypeOf(v) = "string" /\ v.s = <<>>)
  \/ (IsArray(v) /\ Len(v.a) = 0)

\* Line 41's test of a required field's value.
IsMissing(v) ==
  \/ v.t = "undefined"
  \/ v.t = "null"
  \/ (TypeOf(v) = "string" /\ Trim(v.s) = <<>>)
  \/ (IsArray(v) /\ Len(v.a) = 0)

Has(s, f) == f \in DOMAIN s

\* The body of the forEach callback (lines 39-54) for one key: the errors it
\* pushes, in order.
ValidateField(key, v, isUpdate) ==
  LET s == gameSchema[key]
      If(c, e) == IF c THEN <<Err(key, e)>> ELSE <<>>
  IN IF ~isUpdate /\ s.required /\ IsMissing(v)
       THEN <<Err(key, "requis")>>
       ELSE IF v.t \notin {"undefined", "null"}
         THEN If(s.type = "string" /\ TypeOf(v) # "string", "doit etre une chaine")
              \o If(s.type = "array" /\ ~IsArray(v), "doit etre un tableau")
              \o If(s.type = "number" /\ TypeOf(v) # "number", "doit etre un nombre")
              \o If(s.type = "boolean" /\ TypeOf(v) # "boolean", "doit etre boolean")
              \o If(Has(s, "min") /\ TypeOf(v) = "number" /\ v.n < s.min, "doit etre >= min")
              \o If(Has(s, "max") /\ TypeOf(v) = "number" /\ v.n > s.max, "doit etre <= max")
              \o If(Has(s, "minItems") /\ IsArray(v) /\ Len(v.a) < s.minItems,
                    "doit contenir au moins minItems element(s)")
              \o If(Has(s, "minLength") /\ TypeOf(v) = "string" /\ Len(v.s) < s.minLength,
                    "trop court")
         ELSE <<>>

\* payload[key]: undefined for a key the object does not have.
Get(payload, key) == IF key \in DOMAIN payload THEN payload[key] ELSE Undef

RECURSIVE ValidateFrom(_, _, _)
ValidateFrom(i, payload, isUpdate) ==
  IF i > Len(SchemaKeys) THEN <<>>
  ELSE ValidateField(SchemaKeys[i], Get(payload, SchemaKeys[i]), isUpdate)
       \o ValidateFrom(i + 1, payload, isUpdate)

validateGame(payload, isUpdate) == ValidateFrom(1, payload, isUpdate)

(* ------------------------- requests and routing ----------------------- *)

\* A path segment is a string: either some literal text, or the 24 hex digits
\* of the ObjectId numbered n.
Lit(text) == [t |-> "string", lit |-> text]
Hex(n) == [t |-> "string", hex |-> n]

\* ObjectId.isValid(id): of the segments above, only 24 hex digits are valid
\* ("export" and "zz" are neither 24 hex digits nor 12 bytes long).
ObjectIdIsValid(id) == "hex" \in DOMAIN id

\* new ObjectId(id), for a valid id: the ObjectId's number.
ObjectId(id) == id.hex

\* _id.toString()
IdToString(oid) == Hex(oid)

Wild == [t |-> "param"]

\* The routes in the order they are registered (app.post, app.get, ...); the
\* static middleware comes last.
Routes ==
  <<[method |-> "POST", pattern |-> <<Lit("games")>>, handler |-> "postGames"],
    [method |-> "GET", pattern |-> <<Lit("games")>>, handler |-> "listGames"],
    [method |-> "GET", pattern |-> <<Lit("games"), Wild>>, handler |-> "getGame"],
    [method |-> "PUT", pattern |-> <<Lit("games"), Wild>>, handler |-> "putGame"],
    [method |-> "DELETE", pattern |-> <<Lit("games"), Wild>>, handler |-> "deleteGame"],
    [method |-> "POST", pattern |-> <<Lit("games"), Wild, Lit("favorite")>>,
     handler |-> "postFavorite"],
    [method |-> "GET", pattern |-> <<Lit("stats")>>, handler |-> "getStats"],
    [method |-> "GET", pattern |-> <<Lit("games"), Lit("export")>>, handler |-> "getExport"]>>

\* Whether a route's path pattern matches a request path: a parameter matches
\* any one segment.
PathMatches(pattern, path) ==
  /\ Len(pattern) = Len(path)
  /\ \A i \in 1..Len(pattern) : pattern[i] = Wild \/ pattern[i] = path[i]

RouteMatches(r, req) == r.method = req.method /\ PathMatches(r.pattern, req.path)

\* express dispatches a request to the first registered route that matches.
Route(req) ==
  LET hits == {i \in 1..Len(Routes) : RouteMatches(Routes[i], req)}
  IN IF hits = {} THEN "static"
     ELSE Routes[CHOOSE i \in hits : \A j \in hits : i <= j].handler

EmptyObj == <<>>

\* A request: its method, its path below /api, its query string (req.query,
\* parameter -> text) and its JSON body (req.body).
Query(method, path, query) ==
  [method |-> method, path |-> path, query |-> query, body |-> EmptyObj]

Req(method, path, body) ==
  [method |-> method, path |-> path, query |-> EmptyObj, body |-> body]

(* ------------------------------- payloads ----------------------------- *)

TitreA == Str(<<"a">>)
Blank == Str(<<" ">>)
\* An array's elements are values too.
GenreG == Arr(<<Str(<<"g">>)>>)
PlatP == Arr(<<Str(<<"p">>)>>)

MinimalGame == [titre |-> TitreA, genre |-> GenreG, plateforme |-> PlatP]

CreateBodies ==
  { MinimalGame,
    [titre |-> TitreA, genre |-> GenreG, plateforme |-> PlatP,
     temps_jeu_heures |-> Num(1), termine |-> Bool(TRUE), favorite |-> Num(1)],
    [titre |-> Blank, plateforme |-> Arr(<<>>)],
    [titre |-> Num(1), genre |-> GenreG, plateforme |-> PlatP] }

UpdateBodies ==
  { EmptyObj,
    [date_ajout |-> Num(0)],
    [annee_sortie |-> Num(1969)],
    [annee_sortie |-> Num(StartYear + 1)],
    [temps_jeu_heures |-> Num(-1), termine |-> Num(1)],
    [genre |-> Arr(<<>>)],
    [titre |-> Blank],
    [genre |-> Null],
    [favorite |-> Str(<<"x">>)],
    [favorite |-> Bool(TRUE)],
    [favorite |-> Arr(<<Bool(TRUE)>>)],
    [termine |-> Bool(TRUE), temps_jeu_heures |-> Num(2), date_ajout |-> Num(0)] }

\* The texts 'true' and 'false' of lines 102-105.
TextTrue == Str(<<"t", "r", "u", "e">>)
TextFalse == Str(<<"f", "a", "l", "s", "e">>)

\* Query strings: a parameter is a string.
Queries ==
  { EmptyObj,
    [termine |-> TextTrue], [termine |-> TextFalse],
    [termine |-> Str(<<"m", "a", "y", "b", "e">>)],
    [favorite |-> TextTrue], [favorite |-> TextFalse], [favorite |-> Str(<<"1">>)],
    [genre |-> Str(<<"g">>), termine |-> TextFalse] }

IdSegments == {Hex(n) : n \in Oids \cup {NoSuchId}} \cup {Lit("export")}

Requests ==
  {Req("POST", <<Lit("games")>>, b) : b \in CreateBodies}
  \cup {Req("GET", <<Lit("games"), s>>, EmptyObj) : s \in IdSegments}
  \cup {Req("PUT", <<Lit("games"), s>>, b) : s \in IdSegments, b \in UpdateBodies}
  \cup {Req("DELETE", <<Lit("games"), s>>, EmptyObj) : s \in IdSegments}
  \cup {Req("POST", <<Lit("games"), s, Lit("favorite")>>, EmptyObj) : s \in IdSegments}
  \cup {Req("GET", <<Lit("stats")>>, EmptyObj)}
  \cup {Query("GET", <<Lit("games")>>, q) : q \in Queries}

(* -------------------------------- state ------------------------------- *)

VARIABLES
  games,    \* gamesCollection: ObjectId number -> stored document
  nextId,   \* the ObjectId generator: the number of the next ObjectId
  now,      \* the wall clock, what new Date() returns
  pc,       \* per request slot: "idle", or the await its handler is suspended at
  loc,      \* per request slot: the suspended handler's local variables
  resp,     \* the response the last step sent, if it sent one, with its request
  nreq,     \* requests received so far
  ver,      \* history: per ObjectId, the number of updates applied to its document
  togLog,   \* history: per ObjectId, the last two successful toggle writes
  gone      \* history: the ObjectIds whose document a delete has removed

vars == <<games, nextId, now, pc, loc, resp, nreq, ver, togLog, gone>>

NoReq == [method |-> "", path |-> <<>>, query |-> <<>>, body |-> <<>>]
NoLoc == [req |-> NoReq, id |-> 0, data |-> Null, g |-> Null, rver |-> 0]
NoResp == [p |-> 0, req |-> NoReq, status |-> 0, body |-> Undef]

Init ==
  /\ games = <<>>
  /\ nextId = 1
  /\ now = 0
  /\ pc = [p \in Procs |-> "idle"]
  /\ loc = [p \in Procs |-> NoLoc]
  /\ resp = NoResp
  /\ nreq = 0
  /\ ver = [i \in Oids \cup {NoSuchId} |-> 0]
  /\ togLog = [i \in Oids |-> <<>>]
  /\ gone = {}

(* ------------------------------- the store ---------------------------- *)

\* findOne with the filter dropped: some document of the collection.
FindOne_Any(coll, oid) ==
  IF DOMAIN coll = {} THEN Null ELSE coll[CHOOSE i \in DOMAIN coll : TRUE]

\* findOne({_id}): the document, or null.
FindOne(coll, oid) == IF oid \in DOMAIN coll THEN coll[oid] ELSE Null

\* What {$set: set} makes of a document.
ApplySet(doc, set) ==
  [k \in DOMAIN doc \cup DOMAIN set |-> IF k \in DOMAIN set THEN set[k] ELSE doc[k]]

\* findOneAndUpdate with upsert: a missing document is inserted, its other
\* fields blank.
UpdateOne_Upsert(coll, oid, set) ==
  LET blank == [_id |-> oid, titre |-> Null, genre |-> Null, plateforme |-> Null,
                editeur |-> Null, developpeur |-> Null, annee_sortie |-> Null,
                temps_jeu_heures |-> Null, termine |-> Null, favorite |-> Null,
                date_ajout |-> DateV(0), date_modification |-> DateV(0)]
  IN [i \in DOMAIN coll \cup {oid} |->
        IF i = oid
          THEN ApplySet(IF oid \in DOMAIN coll THEN coll[i] ELSE blank, set)
          ELSE coll[i]]

\* The collection after findOneAndUpdate({_id}, {$set: set}): no upsert, so a
\* missing document stays missing.
UpdateOne(coll, oid, set) ==
  IF oid \in DOMAIN coll
    THEN [i \in DOMAIN coll |-> IF i = oid THEN ApplySet(coll[i], set) ELSE coll[i]]
    ELSE coll

\* The collection after insertOne(doc), the driver having numbered the document.
InsertOne(coll, oid, doc) ==
  [i \in DOMAIN coll \cup {oid} |->
     IF i = oid THEN ApplySet([_id |-> oid], doc) ELSE coll[i]]

\* deleteOne that removes nothing.
DeleteOne_Keeps(coll, oid) == coll

\* The collection after deleteOne({_id}).
DeleteOne(coll, oid) == [i \in DOMAIN coll \ {oid} |-> coll[i]]

toResp(doc) ==
  IF doc = Null THEN Null
  ELSE [k \in (DOMAIN doc \ {"_id"}) \cup {"id"} |->
          IF k = "id" THEN IdToString(doc["_id"]) ELSE doc[k]]

(* ------------------------------ handlers ------------------------------ *)

\* res.status(status).json(body), which ends the handler.
Respond(p, req, status, body) ==
  /\ resp' = [p |-> p, req |-> req, status |-> status, body |-> body]
  /\ pc' = [pc EXCEPT ![p] = "idle"]
  /\ loc' = [loc EXCEPT ![p] = NoLoc]

\* The handler suspends at an await.
Await(p, label, locals) ==
  /\ pc' = [pc EXCEPT ![p] = label]
  /\ loc' = [loc EXCEPT ![p] = locals]
  /\ resp' = NoResp

\* A suspended handler's locals: req, id, the document or update it has built,
\* g, and (history) the version of the document that g is.
Locals(req, id, data, g, rver) ==
  [req |-> req, id |-> id, data |-> data, g |-> g, rver |-> rver]

\* Lines 72-85: the document create builds.
NewGame(payload, t) ==
  [titre |-> Get(payload, "titre"),
   genre |-> Get(payload, "genre"),
   plateforme |-> Get(payload, "plateforme"),
   editeur |-> OrElse(Get(payload, "editeur"), Null),
   developpeur |-> OrElse(Get(payload, "developpeur"), Null),
   annee_sortie |-> Coalesce(Get(payload, "annee_sortie"), Null),
   temps_jeu_heures |-> Coalesce(Get(payload, "temps_jeu_heures"), Num(0)),
   termine |-> Not(Not(Get(payload, "termine"))),
   favorite |-> Not(Not(Get(payload, "favorite"))),
   date_ajout |-> DateV(t),
   date_modification |-> DateV(t)]

\* Lines 70 and 135 testing errors.length > 1: a single error passes.
HasErrors_OffByOne(errors) == Len(errors) > 1

\* errors.length, as a condition
HasErrors(errors) == Len(errors) # 0

\* Creates in flight that have not inserted yet.
Inserting == {q \in Procs : pc[q] = "c_insert"}

\* POST /api/games up to its first await (lines 66-86).
PostGames(p, req) ==
  LET errors == validateGame(req.body, FALSE)
  IN IF HasErrors(errors)
       THEN /\ Respond(p, req, 400, [errors |-> errors])
            /\ UNCHANGED <<games, nextId, ver, togLog, gone>>
       ELSE /\ nextId + Cardinality(Inserting) <= MaxIds
            /\ Await(p, "c_insert", Locals(req, 0, NewGame(req.body, now), Null, 0))
            /\ UNCHANGED <<games, nextId, ver, togLog, gone>>

\* insertOne completes (line 86); the handler goes on to findOne.
CreateInsert(p) ==
  /\ pc[p] = "c_insert"
  /\ games' = InsertOne(games, nextId, loc[p].data)
  /\ nextId' = nextId + 1
  /\ Await(p, "c_find", [loc[p] EXCEPT !.id = nextId])
  /\ UNCHANGED <<now, nreq, ver, togLog, gone>>

\* findOne completes and the response is sent (lines 87-88).
CreateFind(p) ==
  /\ pc[p] = "c_find"
  /\ Respond(p, loc[p].req, 201, toResp(FindOne(games, loc[p].id)))
  /\ UNCHANGED <<games, nextId, now, nreq, ver, togLog, gone>>

\* req.query[name]: undefined for a parameter the query string does not have.
Param(query, name) == Get(query, name)

\* Lines 98-105: the filter, field -> the value the field must match.
Filter(query) ==
  LET text == [k \in {x \in {"genre", "plateforme"} : Truthy(Param(query, x))} |->
                 Param(query, k)]
      flag == [k \in {x \in {"termine", "favorite"} :
                        Param(query, x) \in {TextTrue, TextFalse}} |->
                 Bool(Param(query, k) = TextTrue)]
  IN [k \in DOMAIN text \cup DOMAIN flag |->
        IF k \in DOMAIN text THEN text[k] ELSE flag[k]]

\* Whether a stored value matches a filter value {field: want}: the value is
\* equal to it, or is an array that holds it.
MatchesValue(v, want) ==
  \/ v = want
  \/ (IsArray(v) /\ \E k \in 1..Len(v.a) : v.a[k] = want)

Matches(doc, filter) == \A k \in DOMAIN filter : MatchesValue(doc[k], filter[k])

\* The orders in which find(filter).sort({date_ajout: -1}) may return the
\* matching documents: every order that is descending in date_ajout (the order
\* of documents of equal date_ajout is the store's to choose).
SortedFinds(coll, filter) ==
  LET hits == {i \in DOMAIN coll : Matches(coll[i], filter)}
      n == Cardinality(hits)
  IN {[k \in 1..n |-> coll[f[k]]] :
        f \in {g \in [1..n -> hits] :
                 /\ \A a, b \in 1..n : a # b => g[a] # g[b]
                 /\ \A a, b \in 1..n :
                      a < b => coll[g[a]].date_ajout.ms >= coll[g[b]].date_ajout.ms}}

\* GET /api/games (lines 96-113).
ListGames(p, req) ==
  /\ \E docs \in SortedFinds(games, Filter(req.query)) :
       Respond(p, req, 200, [k \in 1..Len(docs) |-> toResp(docs[k])])
  /\ UNCHANGED <<games, nextId, ver, togLog, gone>>

\* GET /api/games/:id (lines 116-127).
GetGame(p, req) ==
  LET id == req.path[2]
  IN /\ IF ~ObjectIdIsValid(id)
          THEN Respond(p, req, 400, [error |-> "id invalide"])
          ELSE LET doc == FindOne(games, ObjectId(id))
               IN IF doc = Null
                    THEN Respond(p, req, 404, [error |-> "non trouve"])
                    ELSE Respond(p, req, 200, toResp(doc))
     /\ UNCHANGED <<games, nextId, ver, togLog, gone>>

\* Line 137 with the record's timestamps whitelisted too.
allowed_WithDates ==
  {"titre", "genre", "plateforme", "editeur", "developpeur", "annee_sortie",
   "temps_jeu_heures", "termine", "favorite", "date_ajout", "date_modification"}

\* Line 137.
allowed ==
  {"titre", "genre", "plateforme", "editeur", "developpeur", "annee_sortie",
   "temps_jeu_heures", "termine", "favorite"}

\* Lines 138-139 copying every field of the payload.
SetOf_NoWhitelist(payload) == payload

\* Lines 138-139: the whitelisted fields of the payload.
SetOf(payload) ==
  [k \in {a \in allowed : Get(payload, a) # Undef} |-> payload[k]]

\* Line 141 stamping date_ajout as well.
Stamped_Both(set, t) ==
  ApplySet(set, [date_modification |-> DateV(t), date_ajout |-> DateV(t)])

\* Line 141: set.date_modification = new Date().
Stamped(set, t) == ApplySet(set, [date_modification |-> DateV(t)])

\* PUT /api/games/:id up to its await (lines 129-143).
PutGame(p, req) ==
  LET id == req.path[2]
      errors == validateGame(req.body, TRUE)
      set == SetOf(req.body)
  IN /\ IF ~ObjectIdIsValid(id)
          THEN Respond(p, req, 400, [error |-> "id invalide"])
          ELSE IF HasErrors(errors)
            THEN Respond(p, req, 400, [errors |-> errors])
            ELSE IF Cardinality(DOMAIN set) = 0
              THEN Respond(p, req, 400, [error |-> "Aucun champ a mettre a jour"])
              ELSE Await(p, "u_write", Locals(req, ObjectId(id), Stamped(set, now), Null, 0))
     /\ UNCHANGED <<games, nextId, ver, togLog, gone>>

\* One more update applied to a document that exists.
Bump(oid) == IF oid \in DOMAIN games THEN [ver EXCEPT ![oid] = @ + 1] ELSE ver

\* findOneAndUpdate completes and the response is sent (lines 143-149).
UpdateWrite(p) ==
  /\ pc[p] = "u_write"
  /\ games' = UpdateOne(games, loc[p].id, loc[p].data)
  /\ ver' = Bump(loc[p].id)
  /\ LET value == FindOne(games', loc[p].id)
     IN IF value = Null
          THEN Respond(p, loc[p].req, 404, [error |-> "non trouve"])
          ELSE Respond(p, loc[p].req, 200, toResp(value))
  /\ UNCHANGED <<nextId, now, nreq, togLog, gone>>

\* DELETE /api/games/:id (lines 156-167).
DeleteGame(p, req) ==
  LET id == req.path[2]
  IN IF ~ObjectIdIsValid(id)
       THEN /\ Respond(p, req, 400, [error |-> "id invalide"])
            /\ UNCHANGED <<games, nextId, ver, togLog, gone>>
       ELSE /\ games' = DeleteOne(games, ObjectId(id))
            /\ IF ObjectId(id) \notin DOMAIN games
                 THEN /\ Respond(p, req, 404, [error |-> "non trouve"])
                      /\ gone' = gone
                 ELSE /\ Respond(p, req, 204, Undef)
                      /\ gone' = gone \cup {ObjectId(id)}
            /\ UNCHANGED <<nextId, ver, togLog>>

\* POST /api/games/:id/favorite up to the completion of findOne (lines 169-173).
PostFavorite(p, req) ==
  LET id == req.path[2]
  IN /\ IF ~ObjectIdIsValid(id)
          THEN Respond(p, req, 400, [error |-> "id invalide"])
          ELSE Await(p, "t_found",
                     Locals(req, ObjectId(id), Null, FindOne(games, ObjectId(id)),
                            ver[ObjectId(id)]))
     /\ UNCHANGED <<games, nextId, ver, togLog, gone>>

\* Line 177 negating twice: the update rewrites the favorite it read.
ToggleSet_NoFlip(g, t) ==
  [favorite |-> Not(Not(g.favorite)), date_modification |-> DateV(t)]

\* Line 177: the update toggle sends.
ToggleSet(g, t) == [favorite |-> Not(g.favorite), date_modification |-> DateV(t)]

\* The handler resumes with g (lines 174-175): not found, or it sends the update.
ToggleStamp(p) ==
  /\ pc[p] = "t_found"
  /\ IF loc[p].g = Null
       THEN Respond(p, loc[p].req, 404, [error |-> "non trouve"])
       ELSE Await(p, "t_write", [loc[p] EXCEPT !.data = ToggleSet(loc[p].g, now)])
  /\ UNCHANGED <<games, nextId, now, nreq, ver, togLog, gone>>

\* History: a successful toggle write, with what it read and what it replaced.
LogEntry(l, before) ==
  [rver |-> l.rver, wver |-> ver[l.id],
   read |-> l.g.favorite, wrote |-> l.data.favorite,
   dmRead |-> l.g.date_modification.ms,
   dmBefore |-> before.date_modification.ms,
   dmWrote |-> l.data.date_modification.ms]

LastTwo(s) == IF Len(s) > 2 THEN SubSeq(s, Len(s) - 1, Len(s)) ELSE s

\* findOneAndUpdate completes and the response is sent (lines 175-180).
ToggleWrite(p) ==
  /\ pc[p] = "t_write"
  /\ games' = UpdateOne(games, loc[p].id, loc[p].data)
  /\ ver' = Bump(loc[p].id)
  /\ togLog' = IF loc[p].id \in DOMAIN games
                 THEN [togLog EXCEPT ![loc[p].id] =
                         LastTwo(Append(@, LogEntry(loc[p], games[loc[p].id])))]
                 ELSE togLog
  /\ Respond(p, loc[p].req, 200, toResp(FindOne(games', loc[p].id)))
  /\ UNCHANGED <<nextId, now, nreq, gone>>

\* The ObjectIds of the collection in the order a scan returns them.
RECURSIVE Scan(_, _)
Scan(coll, from) ==
  IF from > MaxIds THEN <<>>
  ELSE (IF from \in DOMAIN coll THEN <<coll[from]>> ELSE <<>>) \o Scan(coll, from + 1)

RECURSIVE Reduce(_, _)
Reduce(docs, acc) ==
  IF docs = <<>> THEN acc
  ELSE Reduce(Tail(docs), acc + OrElse(Head(docs).temps_jeu_heures, Num(0)).n)

Count(docs, field) == Cardinality({i \in 1..Len(docs) : Truthy(docs[i][field])})

\* Lines 189-194.
Stats(coll) ==
  LET docs == Scan(coll, 1)
  IN [totalGames |-> Len(docs),
      totalPlayTime |-> Reduce(docs, 0),
      finishedGames |-> Count(docs, "termine"),
      favoriteGames |-> Count(docs, "favorite")]

\* GET /api/stats (lines 187-199).
GetStats(p, req) ==
  /\ Respond(p, req, 200, Stats(games))
  /\ UNCHANGED <<games, nextId, ver, togLog, gone>>

\* GET /api/games/export (lines 201-210).
GetExport(p, req) ==
  LET docs == Scan(games, 1)
  IN /\ Respond(p, req, 200, [i \in 1..Len(docs) |-> toResp(docs[i])])
     /\ UNCHANGED <<games, nextId, ver, togLog, gone>>

\* No route matches: express.static finds no file and express answers 404.
Static(p, req) ==
  /\ Respond(p, req, 404, Undef)
  /\ UNCHANGED <<games, nextId, ver, togLog, gone>>

\* A client names an ObjectId that a response gave it, hence one already
\* handed out, or one that no document ever has.
Known(req) ==
  Len(req.path) >= 2 /\ ObjectIdIsValid(req.path[2]) =>
    ObjectId(req.path[2]) < nextId

\* A request arrives and runs the handler of its route up to the handler's
\* first suspension.
Receive(p, req) ==
  /\ pc[p] = "idle"
  /\ Known(req)
  /\ nreq < MaxReq
  /\ nreq' = nreq + 1
  /\ UNCHANGED now
  /\ LET h == Route(req)
     IN CASE h = "postGames" -> PostGames(p, req)
          [] h = "listGames" -> ListGames(p, req)
          [] h = "getGame" -> GetGame(p, req)
          [] h = "putGame" -> PutGame(p, req)
          [] h = "deleteGame" -> DeleteGame(p, req)
          [] h = "postFavorite" -> PostFavorite(p, req)
          [] h = "getStats" -> GetStats(p, req)
          [] h = "getExport" -> GetExport(p, req)
          [] OTHER -> Static(p, req)

\* Time passes.
Tick ==
  /\ now < MaxClock
  /\ now' = now + 1
  /\ resp' = NoResp
  /\ UNCHANGED <<games, nextId, pc, loc, nreq, ver, togLog, gone>>

Next ==
  \/ \E p \in Procs, req \in Requests : Receive(p, req)
  \/ \E p \in Procs : CreateInsert(p)
  \/ \E p \in Procs : CreateFind(p)
  \/ \E p \in Procs : UpdateWrite(p)
  \/ \E p \in Procs : ToggleStamp(p)
  \/ \E p \in Procs : ToggleWrite(p)
  \/ Tick

Spec == Init /\ [][Next]_vars

(* --------------- a second specification: validation in breadth -------- *)

\* An object with the given values, a key whose value is undefined left out.
Obj(vals) == [k \in {x \in DOMAIN vals : vals[x] # Undef} |-> vals[k]]

\* Create payloads: every way each required field can be missing, ill-typed or
\* well-formed.
WideCreateBodies ==
  {Obj([titre |-> ti, genre |-> ge, plateforme |-> pl]) :
     ti \in {Undef, Null, Blank, Str(<<>>), Str(<<" ", " ">>), TitreA, Num(1)},
     ge \in {Undef, Null, Arr(<<>>), GenreG, Str(<<"g">>)},
     pl \in {Undef, Null, Arr(<<>>), PlatP}}

BodyKeys ==
  {"titre", "genre", "plateforme", "editeur", "annee_sortie",
   "temps_jeu_heures", "termine", "favorite", "date_ajout"}

BodyValues ==
  {Null, Blank, Str(<<>>), TitreA, Num(-1), Num(1969), Num(StartYear),
   Num(StartYear + 1), Bool(TRUE), Arr(<<>>)}

\* Update payloads: every one-field payload, the empty payload, and payloads
\* of two fields of which one is outside the whitelist or invalid.
WideUpdateBodies ==
  {EmptyObj}
  \cup {Obj([k \in BodyKeys |-> IF k = key THEN v ELSE Undef]) :
          key \in BodyKeys, v \in BodyValues}
  \cup {[titre |-> TitreA, annee_sortie |-> Num(1969)],
        [termine |-> Bool(FALSE), date_ajout |-> Num(0)],
        [temps_jeu_heures |-> Num(-1), genre |-> Str(<<"g">>)]}

WideRequests ==
  {Req("POST", <<Lit("games")>>, b) : b \in WideCreateBodies}
  \cup {Req("PUT", <<Lit("games"), Hex(n)>>, b) :
          n \in Oids \cup {NoSuchId}, b \in WideUpdateBodies}

NextValidation ==
  \/ \E p \in Procs, req \in WideRequests : nreq < MaxWideReq /\ Receive(p, req)
  \/ \E p \in Procs : CreateInsert(p)
  \/ \E p \in Procs : CreateFind(p)
  \/ \E p \in Procs : UpdateWrite(p)
  \/ Tick

SpecValidation == Init /\ [][NextValidation]_vars

(* ------------------------------- claims ------------------------------- *)

\* The ObjectId a request names, when it names a well-formed one.
Target(req) == ObjectId(req.path[2])

\* Two successive log entries of toggles called in sequence with no other write
\* to the document: each wrote the version it had read, and the second read what
\* the first wrote.
InSequence(a, b) == a.wver = a.rver /\ b.rver = a.wver + 1 /\ b.wver = b.rver

\* C1: for every record, after toggleFavorite is called twice in sequence (no
\* other operation on the record in between), favorite is what it was before
\* the first call, and each call left date_modification strictly greater than
\* it was before that call.
C1_ToggleTwiceRestores ==
  \A i \in Oids :
    Len(togLog[i]) = 2 /\ InSequence(togLog[i][1], togLog[i][2]) =>
      /\ togLog[i][2].wrote = togLog[i][1].read
      /\ togLog[i][1].dmWrote > togLog[i][1].dmBefore
      /\ togLog[i][2].dmWrote > togLog[i][2].dmBefore

\* C2: every stored record has a titre that is a string non-empty after
\* trimming, and a genre and a plateforme that are sequences of at least one
\* element.
C2_RequiredFieldsWellFormed ==
  \A i \in DOMAIN games :
    /\ games[i].titre.t = "string"
    /\ \E k \in 1..Len(games[i].titre.s) : games[i].titre.s[k] # " "
    /\ games[i].genre.t = "array" /\ Len(games[i].genre.a) >= 1
    /\ games[i].plateforme.t = "array" /\ Len(games[i].plateforme.a) >= 1

\* C3: every stored record's favorite and termine hold a boolean.
C3_FlagsAreBoolean ==
  \A i \in DOMAIN games :
    games[i].favorite.t = "boolean" /\ games[i].termine.t = "boolean"

\* The request slot p has received in this step, whether the handler has
\* answered it or is suspended on it.
Received(p) == IF resp'.p = p THEN resp'.req ELSE loc'[p].req

\* A step in which slot p receives a request.
Receives(p) == pc[p] = "idle" /\ nreq' = nreq + 1 /\ (resp'.p = p \/ pc'[p] # "idle")

IsUpdate(req) ==
  req.method = "PUT" /\ Len(req.path) = 2 /\ ObjectIdIsValid(req.path[2])

IsCreate(req) == req.method = "POST" /\ Len(req.path) = 1

\* C4: an update with a well-formed id whose payload fails validation in update
\* mode is answered with the validation errors (400), and the step leaves the
\* whole collection as it was.
C4_InvalidUpdateRejected ==
  [][\A p \in Procs :
       /\ Receives(p)
       /\ IsUpdate(Received(p))
       /\ validateGame(Received(p).body, TRUE) # <<>>
       => /\ resp'.p = p
          /\ resp'.status = 400
          /\ resp'.body = [errors |-> validateGame(Received(p).body, TRUE)]
          /\ games' = games]_vars

\* C4's case: update(id, {annee_sortie: 1969}) of a stored record has just been
\* refused because annee_sortie is below 1970.
C4_Witness ==
  /\ IsUpdate(resp.req)
  /\ resp.req.body = [annee_sortie |-> Num(1969)]
  /\ Target(resp.req) \in DOMAIN games
  /\ resp.status = 400
  /\ resp.body = [errors |-> <<Err("annee_sortie", "doit etre >= min")>>]

\* The fields an update may change, as the specification lists them.
Whitelist ==
  {"titre", "genre", "plateforme", "editeur", "developpeur", "annee_sortie",
   "temps_jeu_heures", "termine", "favorite"}

NoFieldsError == [error |-> "Aucun champ a mettre a jour"]

\* C5: an update with a well-formed id whose payload holds no whitelisted field
\* is answered NoFieldsError (400), and the step leaves the whole collection
\* (date_modification included) as it was.
C5_NoFieldsRejected ==
  [][\A p \in Procs :
       /\ Receives(p)
       /\ IsUpdate(Received(p))
       /\ DOMAIN Received(p).body \cap Whitelist = {}
       => /\ resp'.p = p
          /\ resp'.status = 400
          /\ resp'.body = NoFieldsError
          /\ games' = games]_vars

\* C5's case: an update of a stored record whose payload holds a key, none of
\* it whitelisted, has just been refused for having no field to update.
C5_Witness ==
  /\ IsUpdate(resp.req)
  /\ resp.req.body # EmptyObj
  /\ Target(resp.req) \in DOMAIN games
  /\ resp.status = 400
  /\ resp.body = NoFieldsError

Required == {"titre", "genre", "plateforme"}

\* A payload's field is missing: absent, null, a string of nothing but
\* whitespace, or an empty sequence.
MissingIn(body, f) ==
  \/ f \notin DOMAIN body
  \/ body[f].t = "null"
  \/ (body[f].t = "string" /\ \A k \in 1..Len(body[f].s) : body[f].s[k] = " ")
  \/ (body[f].t = "array" /\ body[f].a = <<>>)

Occurrences(seq, x) == Cardinality({k \in 1..Len(seq) : seq[k] = x})

\* C6: a create whose payload misses some required fields is answered with a
\* list of validation errors (400) that holds exactly one "<field> requis" for
\* each missing required field, and inserts nothing.
C6_EveryMissingFieldListed ==
  [][\A p \in Procs :
       /\ Receives(p)
       /\ IsCreate(Received(p))
       /\ \E f \in Required : MissingIn(Received(p).body, f)
       => /\ resp'.p = p
          /\ resp'.status = 400
          /\ \A f \in Required :
               MissingIn(Received(p).body, f) =>
                 Occurrences(resp'.body.errors, Err(f, "requis")) = 1
          /\ games' = games
          /\ nextId' = nextId]_vars

\* C6's case: a create with a whitespace titre, a null genre and no plateforme
\* has just been refused with all three listed.
C6_Witness ==
  /\ IsCreate(resp.req)
  /\ resp.req.body = [titre |-> Str(<<" ", " ">>), genre |-> Null]
  /\ resp.status = 400
  /\ resp.body = [errors |-> <<Err("titre", "requis"), Err("genre", "requis"),
                              Err("plateforme", "requis")>>]

\* C7: no step replaces a stored date_modification with an earlier timestamp.
C7_DateModificationMonotone ==
  [][\A i \in DOMAIN games \cap DOMAIN games' :
       games'[i].date_modification.ms >= games[i].date_modification.ms]_vars

\* C8: whatever the interleaving, a toggle's write leaves in the store the
\* negation of the favorite that toggle read, whatever the store held by then:
\* of two concurrent toggles the last write wins.
C8_LastWriteWins ==
  [][\A p \in Procs :
       pc[p] = "t_write" /\ pc'[p] = "idle" /\ loc[p].id \in DOMAIN games =>
         /\ loc[p].id \in DOMAIN games'
         /\ games'[loc[p].id].favorite = Not(loc[p].g.favorite)
         /\ resp'.status = 200]_vars

\* C8's case: two toggles of one record read the same version of it, hence the
\* same boolean favorite, both have written and succeeded, one right after the
\* other, and the record now holds the negation of that favorite: two toggles
\* have had the effect of one.
C8_LostToggle ==
  \E i \in DOMAIN games :
    /\ Len(togLog[i]) = 2
    /\ togLog[i][1].rver = togLog[i][2].rver
    /\ togLog[i][2].wver = togLog[i][1].wver + 1
    /\ ver[i] = togLog[i][2].wver + 1
    /\ togLog[i][1].read = togLog[i][2].read
    /\ togLog[i][1].read.t = "boolean"
    /\ games[i].favorite = Not(togLog[i][1].read)

ExportPath == <<Lit("games"), Lit("export")>>

\* C9: GET /api/games/export, as the program routes it, succeeds in every state
\* of the store and returns one response-shaped entry per stored record.
C9_ExportReturnsAll ==
  resp.req.method = "GET" /\ resp.req.path = ExportPath =>
    /\ resp.status = 200
    /\ Len(resp.body) = Cardinality(DOMAIN games)
    /\ \A i \in DOMAIN games : \E k \in 1..Len(resp.body) : resp.body[k] = toResp(games[i])

RECURSIVE SumHours(_)
SumHours(ids) ==
  IF ids = {} THEN 0
  ELSE LET i == CHOOSE x \in ids : TRUE
           h == games[i].temps_jeu_heures
       IN (IF h.t = "number" THEN h.n ELSE 0) + SumHours(ids \ {i})

\* C10: stats() returns the number of stored records, the sum of their
\* temps_jeu_heures (absent counted as 0), the number of records whose termine
\* is true and the number of records whose favorite is true.
C10_StatsCounts ==
  resp.req.method = "GET" /\ resp.req.path = <<Lit("stats")>> =>
    /\ resp.status = 200
    /\ resp.body.totalGames = Cardinality(DOMAIN games)
    /\ resp.body.totalPlayTime = SumHours(DOMAIN games)
    /\ resp.body.finishedGames = Cardinality({i \in DOMAIN games : games[i].termine = Bool(TRUE)})
    /\ resp.body.favoriteGames = Cardinality({i \in DOMAIN games : games[i].favorite = Bool(TRUE)})

IsList(req) == req.method = "GET" /\ req.path = <<Lit("games")>>

\* The stored records a list with the flag filters of query q is to return: for
\* a flag given as 'true' (resp. 'false') the records whose flag is true (resp.
\* false), and for any other text no condition.
Listed(q) ==
  {i \in DOMAIN games :
     \A f \in DOMAIN q \cap {"termine", "favorite"} :
       /\ q[f] = TextTrue => games[i][f] = Bool(TRUE)
       /\ q[f] = TextFalse => games[i][f] = Bool(FALSE)}

\* C11: list with termine (or favorite) = 'true' (resp. 'false') returns exactly
\* the records whose termine (or favorite) is true (resp. false), ordered by
\* date_ajout descending; with any other value of the parameter it returns all
\* the records.
C11_ListFiltersByFlag ==
  IsList(resp.req) /\ DOMAIN resp.req.query \subseteq {"termine", "favorite"} =>
    /\ resp.status = 200
    /\ Len(resp.body) = Cardinality(Listed(resp.req.query))
    /\ \A i \in Listed(resp.req.query) :
         \E k \in 1..Len(resp.body) : resp.body[k] = toResp(games[i])
    /\ \A a, b \in 1..Len(resp.body) :
         a < b => resp.body[a].date_ajout.ms >= resp.body[b].date_ajout.ms

IsDelete(req) ==
  req.method = "DELETE" /\ Len(req.path) = 2 /\ ObjectIdIsValid(req.path[2])

NotFound == [error |-> "non trouve"]

\* C12: once a delete of an id has succeeded, every later delete of that id is
\* answered NotFoundError (404, not 400 and not success), and leaves the
\* collection as it was.
C12_DeleteTwiceNotFound ==
  [][\A p \in Procs :
       /\ Receives(p)
       /\ IsDelete(Received(p))
       /\ Target(Received(p)) \in gone
       => /\ resp'.p = p
          /\ resp'.status = 404
          /\ resp'.body = NotFound
          /\ games' = games]_vars

\* C12's case: a second delete of an id whose record a delete had removed has
\* just been refused.
C12_Witness ==
  /\ IsDelete(resp.req)
  /\ Target(resp.req) \in gone
  /\ Target(resp.req) \in Oids
  /\ resp.status = 404

IsGetById(req) ==
  req.method = "GET" /\ Len(req.path) = 2 /\ req.path[1] = Lit("games")

\* C13: getById is answered InvalidIdError (400) for a malformed id whatever the
\* collection holds, NotFoundError (404) for a well-formed id that has no
\* record, and the record for a well-formed id that has one.
C13_GetByIdOutcomes ==
  IsGetById(resp.req) =>
    LET id == resp.req.path[2]
    IN IF ~ObjectIdIsValid(id)
         THEN resp.status = 400 /\ resp.body = [error |-> "id invalide"]
         ELSE IF ObjectId(id) \notin DOMAIN games
           THEN resp.status = 404 /\ resp.body = NotFound
           ELSE resp.status = 200 /\ resp.body = toResp(games[ObjectId(id)])

\* C13's case: getById of a well-formed id that has no record has just been
\* answered not found, while the collection holds a record.
C13_Witness ==
  /\ IsGetById(resp.req)
  /\ ObjectIdIsValid(resp.req.path[2])
  /\ Target(resp.req) \notin DOMAIN games
  /\ games # <<>>
  /\ resp.status = 404

\* C14: no step changes the date_ajout of a stored record, whatever the update
\* payload (one carrying a date_ajout key included) and whatever the
\* interleaving of updates and toggles.
C14_DateAjoutFrozen ==
  [][\A i \in DOMAIN games \cap DOMAIN games' :
       games'[i].date_ajout = games[i].date_ajout]_vars

\* C14's case: an update whose payload carries a date_ajout key beside a
\* whitelisted one has just been applied, after the clock had moved on from the
\* record's creation, and the record still has the date_ajout of its creation.
C14_Witness ==
  /\ IsUpdate(resp.req)
  /\ "date_ajout" \in DOMAIN resp.req.body
  /\ resp.status = 200
  /\ Target(resp.req) \in DOMAIN games
  /\ games[Target(resp.req)].termine = Bool(TRUE)
  /\ games[Target(resp.req)].date_modification.ms > games[Target(resp.req)].date_ajout.ms
  /\ games[Target(resp.req)].date_ajout # resp.req.body.date_ajout

\* A payload that supplies titre, genre and plateforme and nothing else, each
\* well-formed.
OnlyRequired(body) ==
  /\ DOMAIN body = Required
  /\ body.titre.t = "string" /\ ~MissingIn(body, "titre")
  /\ body.genre.t = "array" /\ ~MissingIn(body, "genre")
  /\ body.plateforme.t = "array" /\ ~MissingIn(body, "plateforme")

\* C15: a create whose payload passes validation and supplies only titre, genre
\* and plateforme inserts exactly one record, with these three fields,
\* temps_jeu_heures 0, termine and favorite false, editeur, developpeur and
\* annee_sortie null, and date_ajout equal to date_modification.
C15_CreateDefaults ==
  [][\A p \in Procs :
       /\ Receives(p) /\ IsCreate(Received(p)) /\ OnlyRequired(Received(p).body)
          => pc'[p] = "c_insert" /\ games' = games
       /\ pc[p] = "c_insert" /\ pc'[p] = "c_find" /\ OnlyRequired(loc[p].req.body)
          => \E i \in DOMAIN games' \ DOMAIN games :
            /\ DOMAIN games' = DOMAIN games \cup {i}
            /\ \A j \in DOMAIN games : games'[j] = games[j]
            /\ \A f \in Required : games'[i][f] = loc[p].req.body[f]
            /\ games'[i].temps_jeu_heures = Num(0)
            /\ games'[i].termine = Bool(FALSE)
            /\ games'[i].favorite = Bool(FALSE)
            /\ games'[i].editeur = Null
            /\ games'[i].developpeur = Null
            /\ games'[i].annee_sortie = Null
            /\ games'[i].date_ajout.t = "date"
            /\ games'[i].date_ajout = games'[i].date_modification]_vars

\* C15's case: a create with only the three required fields has just inserted
\* its record, after the clock had moved on from the start.
C15_Witness ==
  \E p \in Procs :
    /\ pc[p] = "c_find"
    /\ loc[p].req.body = MinimalGame
    /\ loc[p].id \in DOMAIN games
    /\ games[loc[p].id].temps_jeu_heures = Num(0)
    /\ games[loc[p].id].date_ajout.ms > 0

\* C16: a successful update changes, in the targeted record, exactly the
\* whitelisted fields its payload holds, and date_modification; the other
\* fields of the record keep their values, no other key of the payload is
\* stored, and every other record is unchanged.
C16_UpdateFrame ==
  [][\A p \in Procs :
       /\ pc[p] = "u_write"
       /\ pc'[p] = "idle"
       /\ resp'.status = 200
       => LET body == loc[p].req.body
              id == Target(loc[p].req)
          IN /\ id \in DOMAIN games
             /\ DOMAIN games' = DOMAIN games
             /\ \A j \in DOMAIN games \ {id} : games'[j] = games[j]
             /\ DOMAIN games'[id] = DOMAIN games[id]
             /\ \A k \in DOMAIN games[id] \ {"date_modification"} :
                  games'[id][k] = IF k \in Whitelist \cap DOMAIN body
                                    THEN body[k] ELSE games[id][k]
             /\ games'[id].date_modification.t = "date"
             /\ games'[id].date_modification.ms <= now]_vars

\* C16's case: an update with two whitelisted fields and one key outside the
\* whitelist has just been applied to one of two stored records.
C16_Witness ==
  /\ IsUpdate(resp.req)
  /\ resp.status = 200
  /\ DOMAIN resp.req.body = {"termine", "temps_jeu_heures", "date_ajout"}
  /\ Cardinality(DOMAIN games) = 2
  /\ games[Target(resp.req)].temps_jeu_heures = resp.req.body.temps_jeu_heures

\* C17: at any time, create and update accept a numeric annee_sortie exactly
\* when it lies between 1970 and the calendar year current at the time of the
\* request.
C17_YearBoundIsCurrent ==
  [][\A p \in Procs :
       /\ Receives(p)
       /\ IsUpdate(Received(p)) \/ IsCreate(Received(p))
       /\ "annee_sortie" \in DOMAIN Received(p).body
       /\ Received(p).body.annee_sortie.t = "number"
       => LET n == Received(p).body.annee_sortie.n
              refused ==
                /\ resp'.p = p
                /\ resp'.status = 400
                /\ "errors" \in DOMAIN resp'.body
                /\ \E k \in 1..Len(resp'.body.errors) :
                     resp'.body.errors[k].key = "annee_sortie"
          IN refused <=> ~(1970 <= n /\ n <= Year(now))]_vars

IsToggle(req) ==
  req.method = "POST" /\ Len(req.path) = 3 /\ ObjectIdIsValid(req.path[2])

\* C18: whatever the interleaving with a delete, a toggleFavorite that reports
\* success carries a record, never null.
C18_ToggleSuccessHasRecord ==
  IsToggle(resp.req) /\ resp.status = 200 =>
    /\ resp.body # Null
    /\ Target(resp.req) \in DOMAIN games

\* C19: once a delete has removed a record, no record with that id exists
\* again, whatever update or toggle on that id comes later or was in flight.
C19_DeletedStaysDeleted == gone \cap DOMAIN games = {}

\* C19's case: a toggle that had read the record before a delete removed it has
\* just sent its write, which found no record and inserted none.
C19_Witness ==
  /\ IsToggle(resp.req)
  /\ Target(resp.req) \in gone
  /\ resp.status = 200
  /\ Target(resp.req) \notin DOMAIN games

====
